---- MODULE Spec2Model ----
(***************************************************************************)
(* The open-addressing hash-table sets of table.c: the string table        *)
(* (strhash/strcmp built in) and the generic table (hash and compare given *)
(* to createSet).  Both keep a data array, a parallel flags array          *)
(* (0 = empty, 1 = filled, 2 = deleted), count and size, and share the     *)
(* same probe, findElementIndex.  The set of src/generic/table.c, a third   *)
(* table of strings, is modelled after them, with a specification of its   *)
(* own (SpecTable).                                                        *)
(*                                                                         *)
(* An element is a NUL-terminated byte buffer, as addElement's strdup      *)
(* takes it; a buffer may hold bytes after the terminator.  A stored       *)
(* pointer is modelled by the bytes of the block it points to.             *)
(*                                                                         *)
(* Each function of the interface is an operator from the table it is      *)
(* given (a record t of the fields of struct set) to the table it leaves   *)
(* and the value it returns; the actions apply these operators to the      *)
(* table of the run.  With the table goes its heap: for each slot, the     *)
(* blocks strdup returned into data[slot] that nobody has freed.           *)
(*                                                                         *)
(* S is the set of strings a caller holds the set to contain: it is kept   *)
(* beside the table, by the calls made and not by what the table did.      *)
(***************************************************************************)
EXTENDS Integers, Sequences, FiniteSets, TLC

MaxSize == 2    \* largest maxElts handed to createSet
MaxChar == 3    \* the strings are the one-byte strings over 1..MaxChar
MaxHash == 1    \* the caller's hash returns 0..MaxHash
MaxBlocks == 3  \* a run makes this many strdup copies, or one for each slot

VARIABLES variant, size, count, flags, data, hash, status, heap, S

vars == <<variant, size, count, flags, data, hash, status, heap, S>>

\* the table of the run, as the operators below take it
sp == [size |-> size, count |-> count, flags |-> flags, data |-> data,
       status |-> status, heap |-> heap]

NULL == <<>>          \* the null pointer
Uninit == <<-1>>      \* a data[] cell malloc left uninitialised

Variants == {"strings", "generic"}

\* the strings of a run, terminator included: those its hash is given for
Strs == DOMAIN hash
\* the caller's buffers: each string, and one with bytes after the terminator
Bufs == Strs \cup {<<1, 0, 1>>}
\* the element arguments of a call
Args == Bufs \cup {NULL}

\* the indices of t's arrays
SlotsOf(t) == 0..(t.size - 1)

----------------------------------------------------------------------------
(* library functions, byte by byte.  The strings are too short for strhash  *)
(* to wrap round in unsigned arithmetic.                                   *)

RECURSIVE strdupFrom(_, _)
strdupFrom(s, i) ==
    IF s[i] = 0 THEN <<0>> ELSE <<s[i]>> \o strdupFrom(s, i + 1)

\* a fresh block holding the bytes of s up to and including the terminator
strdup(s) == strdupFrom(s, 1)

RECURSIVE strcmpFrom(_, _, _)
strcmpFrom(a, b, i) ==
    IF a[i] # b[i] THEN a[i] - b[i]
    ELSE IF a[i] = 0 THEN 0
    ELSE strcmpFrom(a, b, i + 1)

strcmp(a, b) == strcmpFrom(a, b, 1)

RECURSIVE strhashFrom(_, _, _)
strhashFrom(s, i, h) ==
    IF s[i] = 0 THEN h ELSE strhashFrom(s, i + 1, 31 * h + s[i])

strhash(s) == strhashFrom(s, 1, 0)

\* (*sp->compare)(a, b): the caller's comparison of two elements
compare(a, b) == strcmp(a, b)

\* (*sp->hash)(elt), resp. strhash(elt) in the string table
hashOf(elt) == hash[strdup(elt)]

\* the one-byte strings over 1..MaxChar
ByteStrs == {<<c, 0>> : c \in 1..MaxChar}

\* the hash functions createSet can be given: equal elements hash equal
HashFns == [ByteStrs -> 0..MaxHash]

\* the string table's hash, and the lab's hash for a generic table of strings
strhashFn(strs) == [s \in strs |-> strhash(s)]

----------------------------------------------------------------------------
(* findElementIndex: the probe.  home is the value of hash(elt) % sp->size *)

RECURSIVE probeLoopStopAtDeleted(_, _, _, _, _)
\* a loop that takes a deleted slot for the end of the chain, as an empty one
probeLoopStopAtDeleted(t, elt, home, index, firstDeleted) ==
    IF index < t.size /\ index # home
    THEN IF t.flags[index] = 0 \/ t.flags[index] = 2
         THEN [index |-> index, found |-> FALSE]
         ELSE IF t.flags[index] = 1 /\ compare(t.data[index], elt) = 0
         THEN [index |-> index, found |-> TRUE]
         ELSE probeLoopStopAtDeleted(t, elt, home, (index + 1) % t.size, firstDeleted)
    ELSE [index |-> firstDeleted, found |-> FALSE]

RECURSIVE probeLoopReuseDeleted(_, _, _, _, _)
\* a loop that, at an empty slot, hands back the first deleted slot it passed
probeLoopReuseDeleted(t, elt, home, index, firstDeleted) ==
    IF index < t.size /\ index # home
    THEN IF t.flags[index] = 0
         THEN [index |-> IF firstDeleted = t.size THEN index ELSE firstDeleted,
               found |-> FALSE]
         ELSE IF t.flags[index] = 1 /\ compare(t.data[index], elt) = 0
         THEN [index |-> index, found |-> TRUE]
         ELSE probeLoopReuseDeleted(t, elt, home, (index + 1) % t.size,
                                    IF t.flags[index] = 2 /\ firstDeleted = t.size
                                    THEN index ELSE firstDeleted)
    ELSE [index |-> firstDeleted, found |-> FALSE]

RECURSIVE probeLoopNoDeleted(_, _, _, _, _)
\* a loop that does not note the deleted slots it passes
probeLoopNoDeleted(t, elt, home, index, firstDeleted) ==
    IF index < t.size /\ index # home
    THEN IF t.flags[index] = 0
         THEN [index |-> index, found |-> FALSE]
         ELSE IF t.flags[index] = 1 /\ compare(t.data[index], elt) = 0
         THEN [index |-> index, found |-> TRUE]
         ELSE probeLoopNoDeleted(t, elt, home, (index + 1) % t.size, firstDeleted)
    ELSE [index |-> firstDeleted, found |-> FALSE]

RECURSIVE probeLoop(_, _, _, _, _)
\* the while loop: from index round to home, firstDeleted the first flag 2 seen
probeLoop(t, elt, home, index, firstDeleted) ==
    IF index < t.size /\ index # home
    THEN IF t.flags[index] = 0
         THEN [index |-> index, found |-> FALSE]
         ELSE IF t.flags[index] = 1 /\ compare(t.data[index], elt) = 0
         THEN [index |-> index, found |-> TRUE]
         ELSE probeLoop(t, elt, home, (index + 1) % t.size,
                        IF t.flags[index] = 2 /\ firstDeleted = t.size
                        THEN index ELSE firstDeleted)
    ELSE [index |-> firstDeleted, found |-> FALSE]

\* a probe that notes the home slot as reusable whatever its flag
findElementIndexAnySlot(t, elt, home) ==
    IF home < t.size
    THEN IF t.flags[home] = 0
         THEN [index |-> home, found |-> FALSE]
         ELSE IF t.flags[home] = 1 /\ compare(t.data[home], elt) = 0
         THEN [index |-> home, found |-> TRUE]
         ELSE probeLoop(t, elt, home, (home + 1) % t.size, home)
    ELSE probeLoop(t, elt, home, home, t.size)

\* the slot at home first, then the loop over the others
findElementIndex(t, elt, home) ==
    IF home < t.size
    THEN IF t.flags[home] = 0
         THEN [index |-> home, found |-> FALSE]
         ELSE IF t.flags[home] = 1 /\ compare(t.data[home], elt) = 0
         THEN [index |-> home, found |-> TRUE]
         ELSE probeLoop(t, elt, home, (home + 1) % t.size,
                        IF t.flags[home] = 2 THEN home ELSE t.size)
    ELSE probeLoop(t, elt, home, home, t.size)

\* the probe returns at slot index: its flag is 0, or it holds elt
returnsAt(t, elt, index) ==
    \/ t.flags[index] = 0
    \/ t.flags[index] = 1 /\ compare(t.data[index], elt) = 0

RECURSIVE examinedLoopPastHome(_, _, _, _, _)
\* a loop that tests index != home only after it has looked at the slot
examinedLoopPastHome(t, elt, home, index, seen) ==
    IF index < t.size
    THEN IF returnsAt(t, elt, index) \/ index = home
         THEN Append(seen, index)
         ELSE examinedLoopPastHome(t, elt, home, (index + 1) % t.size,
                                   Append(seen, index))
    ELSE seen

RECURSIVE examinedLoop(_, _, _, _, _)
\* the slots whose flag the while loop reads, in order, after those in seen
examinedLoop(t, elt, home, index, seen) ==
    IF index < t.size /\ index # home
    THEN IF returnsAt(t, elt, index)
         THEN Append(seen, index)
         ELSE examinedLoop(t, elt, home, (index + 1) % t.size, Append(seen, index))
    ELSE seen

\* the slots whose flag findElementIndex reads, in the order it reads them
examined(t, elt, home) ==
    IF home < t.size
    THEN IF returnsAt(t, elt, home)
         THEN <<home>>
         ELSE examinedLoop(t, elt, home, (home + 1) % t.size, <<home>>)
    ELSE examinedLoop(t, elt, home, home, <<>>)

\* hash(elt) % sp->size where the division is defined
homeOf(t, elt) == hashOf(elt) % t.size

\* what the probe answers for elt in table t (t.size > 0)
probe(t, elt) == findElementIndex(t, elt, homeOf(t, elt))

----------------------------------------------------------------------------
(* createSet *)

\* the table createSet returns: every flag 0, the data cells not written
created(maxElts) ==
    [size |-> maxElts, count |-> 0,
     flags |-> [i \in 0..(maxElts - 1) |-> 0],
     data |-> [i \in 0..(maxElts - 1) |-> Uninit],
     status |-> "ok",
     heap |-> [i \in 0..(maxElts - 1) |-> 0]]

createSet(v, maxElts, h) ==
    /\ variant = v
    /\ hash = h
    /\ size = created(maxElts).size
    /\ count = created(maxElts).count
    /\ flags = created(maxElts).flags
    /\ data = created(maxElts).data
    /\ status = created(maxElts).status
    /\ heap = created(maxElts).heap
    /\ S = {}

\* a table of either kind, of any size up to MaxSize, under any hash
AnyTable ==
    \E v \in Variants, maxElts \in 0..MaxSize :
        \E h \in (IF v = "strings" THEN {strhashFn(ByteStrs)} ELSE HashFns) :
            createSet(v, maxElts, h)

\* the elements 1, 5, 2, 9 of the worked example, as one-byte strings
ExampleStrs == {<<1, 0>>, <<5, 0>>, <<2, 0>>, <<9, 0>>}

\* the table of the worked example: capacity 4, hash the identity (strhash
\* of a one-byte string is its byte)
ExampleTable == createSet("generic", 4, strhashFn(ExampleStrs))

Init == AnyTable \/ ExampleTable

RECURSIVE blocksFrom(_, _)
blocksFrom(t, i) == IF i < t.size THEN t.heap[i] + blocksFrom(t, i + 1) ELSE 0

\* how many blocks of t's heap are allocated
blocks(t) == blocksFrom(t, 0)

\* the runs looked at: those that leave no more than MaxBlocks blocks
\* allocated, or no more than the table has slots
Bounded(t) == blocks(t) <= (IF t.size > MaxBlocks THEN t.size ELSE MaxBlocks)

\* the run goes on with table t, the caller's set being A; a process that has
\* stopped (an assert, a trap, a store outside an array) leaves no table and
\* no heap behind, a destroyed set the blocks destroySet did not free
Become(t, A) ==
    /\ status' = t.status
    /\ IF t.status = "ok"
       THEN /\ size' = t.size
            /\ count' = t.count
            /\ flags' = t.flags
            /\ data' = t.data
            /\ S' = A
       ELSE /\ size' = 0
            /\ count' = 0
            /\ flags' = <<>>
            /\ data' = <<>>
            /\ S' = {}
    /\ heap' = IF t.status \in {"ok", "destroyed"} THEN t.heap ELSE <<>>
    /\ UNCHANGED <<variant, hash>>

\* the caller's set after a call of addElement, made only where it has room
\* (fewer than size elements), and after a call of removeElement
setAdded(A, n, elt) ==
    IF elt # NULL /\ Cardinality(A) < n THEN A \cup {strdup(elt)} ELSE A
setRemoved(A, elt) ==
    IF elt # NULL THEN A \ {strdup(elt)} ELSE A

----------------------------------------------------------------------------
(* addElement *)

\* an addElement that stores the copy and counts it but leaves the flag alone
addedNoFlag(t, elt) ==
    IF elt = NULL \/ ~(t.count < t.size)
    THEN [t EXCEPT !.status = "abort"]
    ELSE LET r == probe(t, elt) IN
         IF r.found THEN t
         ELSE IF r.index < t.size
         THEN [t EXCEPT !.data[r.index] = strdup(elt), !.count = t.count + 1,
                        !.heap[r.index] = @ + 1]
         ELSE [t EXCEPT !.status = "ub"]

\* an addElement that counts an element it found already there
addedCountsAgain(t, elt) ==
    IF elt = NULL \/ ~(t.count < t.size)
    THEN [t EXCEPT !.status = "abort"]
    ELSE LET r == probe(t, elt) IN
         IF r.index < t.size
         THEN [t EXCEPT !.data[r.index] = strdup(elt),
                        !.flags[r.index] = 1,
                        !.count = t.count + 1,
                        !.heap[r.index] = @ + 1]
         ELSE [t EXCEPT !.status = "ub"]

\* an addElement that makes its copy before it looks for the element
addedCopiesFirst(t, elt) ==
    IF elt = NULL \/ ~(t.count < t.size)
    THEN [t EXCEPT !.status = "abort"]
    ELSE LET r == probe(t, elt) IN
         IF r.found
         THEN [t EXCEPT !.heap[r.index] = @ + 1]
         ELSE IF r.index < t.size
         THEN [t EXCEPT !.data[r.index] = strdup(elt),
                        !.flags[r.index] = 1,
                        !.count = t.count + 1,
                        !.heap[r.index] = @ + 1]
         ELSE [t EXCEPT !.status = "ub"]

\* an addElement that looks for the element first and checks for room after
addedProbesFirst(t, elt) ==
    IF elt = NULL THEN [t EXCEPT !.status = "abort"]
    ELSE IF t.size = 0 THEN [t EXCEPT !.status = "trap"]
    ELSE LET r == probe(t, elt) IN
         IF r.found THEN t
         ELSE IF ~(t.count < t.size) THEN [t EXCEPT !.status = "abort"]
         ELSE [t EXCEPT !.data[r.index] = strdup(elt),
                        !.flags[r.index] = 1,
                        !.count = t.count + 1,
                        !.heap[r.index] = @ + 1]

\* the table addElement(t, elt) leaves
added(t, elt) ==
    IF elt = NULL \/ ~(t.count < t.size)
    THEN \* assert(elt != NULL); assert(sp->count < sp->size)
         [t EXCEPT !.status = "abort"]
    ELSE LET r == probe(t, elt) IN
         IF r.found
         THEN t
         ELSE IF r.index < t.size
         THEN [t EXCEPT !.data[r.index] = strdup(elt),
                        !.flags[r.index] = 1,
                        !.count = t.count + 1,
                        !.heap[r.index] = @ + 1]
         ELSE \* a store to data[size]: outside the array
              [t EXCEPT !.status = "ub"]

addElement(elt) ==
    /\ status = "ok"
    /\ Bounded(added(sp, elt))
    /\ Become(added(sp, elt), setAdded(S, size, elt))

----------------------------------------------------------------------------
(* removeElement.  In a table of size 0 the probe computes hash % 0: trap    *)
(* says whether the division traps or yields some value, after which there *)
(* is no slot to look at.                                                  *)

\* what hash % sp->size can do: it is defined unless size is 0
Traps == IF size = 0 THEN BOOLEAN ELSE {FALSE}

\* a removeElement that counts the element out but leaves its slot filled
removedKeepFlag(t, elt, trap) ==
    IF elt = NULL \/ t.size = 0 THEN t
    ELSE LET r == probe(t, elt) IN
         IF ~r.found THEN t ELSE [t EXCEPT !.count = t.count - 1]

\* a removeElement that marks the slot empty instead of deleted
removedToEmpty(t, elt, trap) ==
    IF elt = NULL \/ t.size = 0 THEN t
    ELSE LET r == probe(t, elt) IN
         IF ~r.found THEN t
         ELSE [t EXCEPT !.flags[r.index] = 0, !.count = t.count - 1]

\* a removeElement that does not look at found
removedUnchecked(t, elt, trap) ==
    IF elt = NULL \/ t.size = 0 THEN t
    ELSE LET r == probe(t, elt) IN
         IF r.index < t.size
         THEN [t EXCEPT !.flags[r.index] = 2, !.count = t.count - 1]
         ELSE [t EXCEPT !.count = t.count - 1]

\* the table removeElement(t, elt) leaves
removed(t, elt, trap) ==
    IF elt = NULL
    THEN t
    ELSE IF t.size = 0
    THEN IF trap THEN [t EXCEPT !.status = "trap"] ELSE t
    ELSE LET r == probe(t, elt) IN
         IF ~r.found
         THEN t
         ELSE [t EXCEPT !.flags[r.index] = 2, !.count = t.count - 1]

removeElement(elt) ==
    /\ status = "ok"
    /\ \E trap \in Traps : Become(removed(sp, elt, trap), setRemoved(S, elt))

----------------------------------------------------------------------------
(* findElement *)

\* the pointer findElement(t, elt) returns: NULL or sp->data[a]
found(t, elt) ==
    IF elt = NULL THEN NULL
    ELSE IF t.size = 0 THEN NULL
    ELSE LET r == probe(t, elt) IN IF r.found THEN t.data[r.index] ELSE NULL

\* findElement writes nothing; it can only stop the process
sought(t, elt, trap) ==
    IF elt # NULL /\ t.size = 0 /\ trap THEN [t EXCEPT !.status = "trap"] ELSE t

findElement(elt) ==
    /\ status = "ok"
    /\ \E trap \in Traps : Become(sought(sp, elt, trap), S)

----------------------------------------------------------------------------
(* numElements, getElements, destroySet *)

\* numElements returns sp->count and changes nothing
numElements ==
    /\ status = "ok"
    /\ UNCHANGED vars

RECURSIVE copyFilledOrDeleted(_, _, _)
\* a loop that copies every slot whose flag is not 0
copyFilledOrDeleted(t, i, out) ==
    IF i < t.size
    THEN copyFilledOrDeleted(t, i + 1,
                             IF t.flags[i] # 0 THEN Append(out, t.data[i]) ELSE out)
    ELSE out

RECURSIVE copyFilled(_, _, _)
\* the for loop of getElements from slot i on: the filled slots in slot order
\* (the generic table hands out the pointers, the string tables strdup copies)
copyFilled(t, i, out) ==
    IF i < t.size
    THEN copyFilled(t, i + 1,
                    IF t.flags[i] = 1
                    THEN Append(out, IF variant = "generic"
                                     THEN t.data[i] ELSE strdup(t.data[i]))
                    ELSE out)
    ELSE out

\* toReturn as getElements returns it: count cells, the first whereToAdd written
elementsArray(t) ==
    LET out == copyFilled(t, 0, <<>>) IN
    [k \in 1..t.count |-> IF k <= Len(out) THEN out[k] ELSE Uninit]

\* getElements writes to its own array only: past its end if more slots are
\* filled than count says
enumerated(t) ==
    IF Len(copyFilled(t, 0, <<>>)) > t.count THEN [t EXCEPT !.status = "ub"] ELSE t

getElements ==
    /\ status = "ok"
    /\ Become(enumerated(sp), S)

\* free(sp->data[i]): of a pointer strdup returned, or of NULL; of a cell
\* never written it is undefined
free(t, i) ==
    IF t.data[i] = NULL THEN t
    ELSE IF t.data[i] = Uninit \/ t.heap[i] = 0 THEN [t EXCEPT !.status = "ub"]
    ELSE [t EXCEPT !.heap[i] = @ - 1]

RECURSIVE freeSlots(_, _)
\* the for loop of the string table's destroySet from slot i on: it runs over
\* the slots below count, and frees those whose flag is not 0
freeSlots(t, i) ==
    IF i < t.count
    THEN IF i < t.size
         THEN freeSlots(IF t.flags[i] # 0 THEN free(t, i) ELSE t, i + 1)
         ELSE [t EXCEPT !.status = "ub"]
    ELSE t

\* what destroySet leaves: the generic table frees its two arrays only, the
\* string table the copies its loop comes to as well; no call may follow
destroyed(t) ==
    LET u == IF variant = "strings" THEN freeSlots(t, 0) ELSE t IN
    IF u.status = "ok" THEN [u EXCEPT !.status = "destroyed"] ELSE u

destroySet ==
    /\ status = "ok"
    /\ Become(destroyed(sp), S)

----------------------------------------------------------------------------

Next ==
    \/ \E elt \in Args : addElement(elt)
    \/ \E elt \in Args : removeElement(elt)
    \/ \E elt \in Args : findElement(elt)
    \/ numElements
    \/ getElements
    \/ destroySet

Spec == Init /\ [][Next]_vars

----------------------------------------------------------------------------
(* src/generic/table.c: a set of strings with the same arrays, whose probe  *)
(* goes from the home slot up to the end of the array, whose addElement     *)
(* writes no flag, and whose removeElement frees the copy.                  *)

RECURSIVE table_probeLoop(_, _, _, _)
\* the while loop: from index up to the last slot, by index++
table_probeLoop(t, elt, index, firstDeleted) ==
    IF index < t.size
    THEN IF t.flags[index] = 0
         THEN [index |-> index, found |-> FALSE]
         ELSE IF t.flags[index] = 1 /\ strcmp(t.data[index], elt) = 0
         THEN [index |-> index, found |-> TRUE]
         ELSE table_probeLoop(t, elt, index + 1,
                              IF t.flags[index] = 2 /\ firstDeleted = t.size
                              THEN index ELSE firstDeleted)
    ELSE [index |-> firstDeleted, found |-> FALSE]

\* the probe of table.c (t.size > 0)
table_findElementIndex(t, elt) ==
    table_probeLoop(t, elt, strhash(elt) % t.size, t.size)

\* the table addElement(t, elt) of table.c leaves
table_added(t, elt) ==
    IF elt = NULL \/ ~(t.count < t.size)
    THEN [t EXCEPT !.status = "abort"]
    ELSE LET r == table_findElementIndex(t, elt) IN
         IF r.found
         THEN t
         ELSE IF r.index < t.size
         THEN [t EXCEPT !.data[r.index] = strdup(elt),
                        !.count = t.count + 1,
                        !.heap[r.index] = @ + 1]
         ELSE [t EXCEPT !.status = "ub"]

\* the table removeElement(t, elt) of table.c leaves
table_removed(t, elt, trap) ==
    IF elt = NULL
    THEN t
    ELSE IF t.size = 0
    THEN IF trap THEN [t EXCEPT !.status = "trap"] ELSE t
    ELSE LET r == table_findElementIndex(t, elt) IN
         IF ~r.found
         THEN t
         ELSE [free(t, r.index) EXCEPT !.flags[r.index] = 2,
                                       !.data[r.index] = NULL,
                                       !.count = t.count - 1]

\* the pointer findElement(t, elt) of table.c returns
table_found(t, elt) ==
    IF elt = NULL THEN NULL
    ELSE IF t.size = 0 THEN NULL
    ELSE LET r == table_findElementIndex(t, elt) IN
         IF r.found THEN t.data[r.index] ELSE NULL

RECURSIVE table_freeSlots(_, _)
\* the for loop of destroySet in table.c from slot i on: it frees data[i] for
\* every i below count, whatever the flag
table_freeSlots(t, i) ==
    IF i < t.count
    THEN IF i < t.size
         THEN table_freeSlots(free(t, i), i + 1)
         ELSE [t EXCEPT !.status = "ub"]
    ELSE t

table_destroyed(t) ==
    LET u == table_freeSlots(t, 0) IN
    IF u.status = "ok" THEN [u EXCEPT !.status = "destroyed"] ELSE u

table_addElement(elt) ==
    /\ status = "ok"
    /\ Bounded(table_added(sp, elt))
    /\ Become(table_added(sp, elt), setAdded(S, size, elt))

table_removeElement(elt) ==
    /\ status = "ok"
    /\ \E trap \in Traps : Become(table_removed(sp, elt, trap), setRemoved(S, elt))

table_findElement(elt) ==
    /\ status = "ok"
    /\ \E trap \in Traps : Become(sought(sp, elt, trap), S)

table_destroySet ==
    /\ status = "ok"
    /\ Become(table_destroyed(sp), S)

\* a set of table.c: of any size up to MaxSize + 2, over the one-byte strings
\* and those of the worked example
table_Init ==
    \E maxElts \in 0..(MaxSize + 2) :
        createSet("table", maxElts, strhashFn(ByteStrs \cup ExampleStrs))

table_Next ==
    \/ \E elt \in Args : table_addElement(elt)
    \/ \E elt \in Args : table_removeElement(elt)
    \/ \E elt \in Args : table_findElement(elt)
    \/ numElements
    \/ getElements
    \/ table_destroySet

SpecTable == table_Init /\ [][table_Next]_vars

----------------------------------------------------------------------------
(* What the claims speak of, read off the arrays and not off the probe *)

Filled(t) == {i \in SlotsOf(t) : t.flags[i] = 1}
Deleted(t) == {i \in SlotsOf(t) : t.flags[i] = 2}
Empty(t) == {i \in SlotsOf(t) : t.flags[i] = 0}

\* e is a member: some filled slot holds an element that compares equal to it
Member(t, e) == \E i \in Filled(t) : compare(t.data[i], e) = 0

\* how many steps of linear probing lead from e's home slot to slot i
Dist(e, i) == (i - homeOf(sp, e) + size) % size

\* the slot among slots the probe for e comes to first
Earliest(e, slots) == CHOOSE i \in slots : \A j \in slots : Dist(e, i) <= Dist(e, j)

\* the deleted slots the probe for e passes before it comes to slot i
DeletedBefore(e, i) == {d \in Deleted(sp) : Dist(e, d) < Dist(e, i)}

\* the probe for e passes a deleted slot and then comes to an empty one
DeletedThenEmpty(e) ==
    /\ Empty(sp) # {}
    /\ DeletedBefore(e, Earliest(e, Empty(sp))) # {}

\* a table the functions may be called on without dividing by zero
Running == status = "ok" /\ size > 0

----------------------------------------------------------------------------
\* C1: no two filled slots hold elements that compare equal, whatever
\* addElement and removeElement calls came before.
C1_NoDuplicates ==
    \A i, j \in Filled(sp) : i # j => compare(data[i], data[j]) # 0

\* two members share a home slot, and a deleted slot still holds the bytes of
\* an element that is a member again: it was added, removed and added again
C1_Witness ==
    /\ Running
    /\ \E i, j \in Filled(sp) : i # j /\ homeOf(sp, data[i]) = homeOf(sp, data[j])
    /\ \E d \in Deleted(sp) : Member(sp, data[d])

\* C2: where count < size and e is no member, findElement(e) right after
\* addElement(e) returns a stored element equal to e, not NULL.
C2_AddThenFind ==
    \A e \in Bufs :
        (Running /\ count < size /\ ~Member(sp, e))
           => LET t == added(sp, e) IN
              /\ t.status = "ok"
              /\ found(t, e) # NULL
              /\ compare(found(t, e), e) = 0

\* the buffer with bytes after its terminator is found as the stored copy,
\* which the probe reaches past a deleted slot, away from its home
C2_Witness ==
    /\ Running
    /\ found(sp, <<1, 0, 1>>) = <<1, 0>>
    /\ DeletedBefore(<<1, 0, 1>>, probe(sp, <<1, 0, 1>>).index) # {}

\* C3: after removeElement(e) has returned, findElement(e) returns NULL.
C3_RemoveThenFind ==
    \A e \in Bufs :
        Running => LET t == removed(sp, e, FALSE) IN
                   t.status = "ok" /\ found(t, e) = NULL

\* a removed element is absent although its bytes are still in a deleted slot
\* that the probe for a remaining member passes
C3_Witness ==
    /\ Running
    /\ \E d \in Deleted(sp) :
          /\ found(sp, data[d]) = NULL
          /\ \E i \in Filled(sp) : d \in DeletedBefore(data[i], i)

\* C4: removeElement(e) leaves every other member found, as the same stored
\* element, also where its probe passes the slot e was in.
C4_RemoveKeepsOthers ==
    \A e \in Bufs : \A x \in Bufs :
        (Running /\ Member(sp, x) /\ compare(x, e) # 0)
           => /\ found(sp, x) # NULL
              /\ found(removed(sp, e, FALSE), x) = found(sp, x)

\* every slot between a member's home and its own slot is deleted: all the
\* elements it collided with were removed, and it is still found
C4_Witness ==
    /\ Running
    /\ \E i \in Filled(sp) :
          /\ Dist(data[i], i) >= 2
          /\ \A j \in SlotsOf(sp) : Dist(data[i], j) < Dist(data[i], i) => j \in Deleted(sp)
          /\ found(sp, data[i]) = data[i]

----------------------------------------------------------------------------
(* The worked example: capacity 4, add(1); add(5); add(2); remove(5); add(9) *)

InExample == hash = strhashFn(ExampleStrs)

Example3 == added(added(added(created(4), <<1, 0>>), <<5, 0>>), <<2, 0>>)
Example4 == removed(Example3, <<5, 0>>, FALSE)
Example5 == added(Example4, <<9, 0>>)

\* C5 as stated: a probe for a non-member that passes deleted slots and then
\* comes to an empty one returns the first deleted slot it passed, and in the
\* worked example 9 is stored in the slot the removal of 5 marked deleted.
C5_FirstDeletedReused ==
    /\ \A e \in Bufs :
          (Running /\ ~Member(sp, e) /\ DeletedThenEmpty(e))
             => probe(sp, e) =
                   [index |-> Earliest(e, DeletedBefore(e, Earliest(e, Empty(sp)))),
                    found |-> FALSE]
    /\ (InExample /\ sp = Example4)
          => LET t == added(sp, <<9, 0>>) IN
             t.flags[2] = 1 /\ t.data[2] = <<9, 0>>

\* C5 as the code has it: such a probe returns the empty slot it came to; the
\* first deleted slot is returned only where the probe meets no empty slot on
\* its way round.  In the worked example 1, 5, 2 go to slots 1, 2, 3, and 9 is
\* stored in the empty slot 0 while slot 2 stays deleted; 9 is then found and
\* count is 3.
C5_EmptySlotReturned ==
    /\ \A e \in Bufs :
          (Running /\ ~Member(sp, e) /\ DeletedThenEmpty(e))
             => probe(sp, e) = [index |-> Earliest(e, Empty(sp)), found |-> FALSE]
    /\ \A e \in Bufs :
          (Running /\ ~Member(sp, e) /\ Empty(sp) = {} /\ Deleted(sp) # {})
             => probe(sp, e) = [index |-> Earliest(e, Deleted(sp)), found |-> FALSE]
    /\ InExample =>
          /\ Example3.flags = (0 :> 0 @@ 1 :> 1 @@ 2 :> 1 @@ 3 :> 1)
          /\ Example3.data[1] = <<1, 0>>
          /\ Example3.data[2] = <<5, 0>>
          /\ Example3.data[3] = <<2, 0>>
          /\ Example4.count = 2
          /\ found(Example4, <<5, 0>>) = NULL
          /\ found(Example4, <<2, 0>>) = <<2, 0>>
          /\ Example5.flags = (0 :> 1 @@ 1 :> 1 @@ 2 :> 2 @@ 3 :> 1)
          /\ Example5.data[0] = <<9, 0>>
          /\ Example5.count = 3
          /\ found(Example5, <<9, 0>>) = <<9, 0>>

\* the run of the worked example has come to its end
C5_Witness == Running /\ InExample /\ sp = Example5

\* C6: in a full table, removing a member and then adding a different element
\* that is no member brings count back to size, finds every other member where
\* it was, and finds the new element.
C6_FullRemoveAdd ==
    \A r \in Bufs : \A e \in Bufs :
        (Running /\ count = size /\ Member(sp, r) /\ ~Member(sp, e))
           => LET t == added(removed(sp, r, FALSE), e) IN
              /\ t.status = "ok"
              /\ t.count = count
              /\ found(t, e) # NULL
              /\ compare(found(t, e), e) = 0
              /\ \A x \in Bufs :
                    (Member(sp, x) /\ compare(x, r) # 0)
                       => (found(sp, x) # NULL /\ found(t, x) = found(sp, x))

\* a full table of two slots or more whose members collided, and an element
\* that is no member, with the same home slot as a member not stored there
C6_Witness ==
    /\ Running
    /\ size >= 2
    /\ count = size
    /\ \E e \in Bufs : \E i \in Filled(sp) :
          /\ ~Member(sp, e)
          /\ homeOf(sp, e) = homeOf(sp, data[i])
          /\ i # homeOf(sp, e)

\* C7: getElements returns count elements, each written, each found by
\* findElement, no two equal, and every member is among them.
C7_Enumerate ==
    status = "ok" =>
        LET arr == elementsArray(sp) IN
        /\ enumerated(sp).status = "ok"
        /\ Len(arr) = count
        /\ \A k \in 1..Len(arr) : arr[k] # Uninit /\ found(sp, arr[k]) # NULL
        /\ \A k, l \in 1..Len(arr) : k # l => compare(arr[k], arr[l]) # 0
        /\ \A e \in Bufs : Member(sp, e) => \E k \in 1..Len(arr) : compare(arr[k], e) = 0

\* two members with a deleted slot between them in the array
C7_Witness ==
    /\ Running
    /\ \E i, j \in Filled(sp) : \E d \in Deleted(sp) : i < d /\ d < j
    /\ Len(elementsArray(sp)) = 2

\* C8: count is the number of filled slots, and so between 0 and size.
C8_CountIsFilled ==
    /\ count = Cardinality(Filled(sp))
    /\ 0 <= count
    /\ count <= size

\* a table with filled and deleted slots: count is below the number of slots
\* in use, and an element added twice and one removed have gone before
C8_Witness ==
    /\ Running
    /\ count >= 2
    /\ Deleted(sp) # {}
    /\ \E d \in Deleted(sp) : Member(sp, data[d])

\* C9: removeElement of an element that is no member leaves count, the flags
\* and the stored elements as they were.
C9_RemoveAbsent ==
    \A e \in Bufs : \A trap \in Traps :
        (status = "ok" /\ ~Member(sp, e))
           => LET t == removed(sp, e, trap) IN
              t.count = count /\ t.flags = flags /\ t.data = data

\* an element that was removed before, its bytes still in a deleted slot, and
\* a free slot its probe would answer with
C9_Witness ==
    /\ Running
    /\ \E e \in Bufs :
          /\ ~Member(sp, e)
          /\ \E d \in Deleted(sp) : compare(data[d], e) = 0
          /\ probe(sp, e).index < size
          /\ count > 0

\* C10: while the set lives, a slot that is filled or deleted never becomes
\* empty again.
C10_NeverEmptyAgain ==
    [][status' = "ok" => \A i \in SlotsOf(sp) : flags[i] # 0 => flags'[i] # 0]_vars

\* every slot is deleted: the table holds nothing and has no empty slot left
C10_Witness ==
    /\ Running
    /\ size >= 2
    /\ count = 0
    /\ Empty(sp) = {}

----------------------------------------------------------------------------
\* C11: every copy addElement allocates is released exactly once, when its
\* element is removed or when the set is destroyed: destroySet frees no block
\* twice and none that was never allocated, and once the set is destroyed no
\* copy is left allocated.
C11_CopiesReleasedOnce ==
    /\ status = "ok" => destroyed(sp).status = "destroyed"
    /\ status = "destroyed" => \A i \in DOMAIN heap : heap[i] = 0

\* C12: on every table createSet accepts, of capacity 0 too, findElement and
\* removeElement of an element that is no member return, findElement with
\* NULL, and leave the table as it was: the call ends in no trap.
C12_AbsentIsNoError ==
    [][\A e \in Bufs :
          (status = "ok" /\ ~Member(sp, e) /\ (findElement(e) \/ removeElement(e)))
             => /\ found(sp, e) = NULL
                /\ status' = "ok"
                /\ UNCHANGED <<size, count, flags, data>>]_vars

\* C13: addElement on a table with count = size stops at its assertion, for a
\* member as for any other element: no slot, flag or count is written, no copy
\* is made, and the probe (which would divide by zero in a table of size 0) is
\* not run.
C13_FullAddAborts ==
    \A e \in Bufs :
        (status = "ok" /\ count = size)
           => added(sp, e) = [sp EXCEPT !.status = "abort"]

\* a full table with a deleted slot gone by (so filled a second time), in which
\* addElement stops for a member and for an element that is none
C13_Witness ==
    /\ Running
    /\ size >= 2
    /\ count = size
    /\ blocks(sp) > size
    /\ \E e, x \in Bufs :
          /\ Member(sp, e) /\ added(sp, e).status = "abort"
          /\ ~Member(sp, x) /\ added(sp, x).status = "abort"

\* C14: the set of src/generic/table.c holds no duplicates: with S the strings
\* added to it, numElements returns the number of strings in S (a string
\* added again is not counted again) and findElement returns each of them.
C14_TableNoDuplicates ==
    (variant = "table" /\ status = "ok")
       => /\ count = Cardinality(S)
          /\ \A e \in S : table_found(sp, e) # NULL

\* C15: in a table of size > 0, whatever its slots hold (no empty slot among
\* them too), findElementIndex looks at no more than size slots and at none
\* twice: first at hash(e) % size, then each time at (index + 1) % size; it
\* returns at the last slot it looked at, or has looked at all of them.
C15_ProbeVisitsOnce ==
    \A e \in Bufs :
        Running =>
            LET p == examined(sp, e, homeOf(sp, e))
                r == probe(sp, e)
            IN  /\ Len(p) >= 1
                /\ Len(p) <= size
                /\ p[1] = hashOf(e) % size
                /\ \A k \in 1..(Len(p) - 1) : p[k + 1] = (p[k] + 1) % size
                /\ \A k, l \in 1..Len(p) : k # l => p[k] # p[l]
                /\ IF r.found \/ (r.index < size /\ flags[r.index] = 0)
                   THEN p[Len(p)] = r.index
                   ELSE Len(p) = size

\* a table of three slots or more without an empty slot, and an element that
\* is no member whose probe starts past slot 0: it wraps round, looks at every
\* slot and ends on a deleted one
C15_Witness ==
    /\ Running
    /\ size >= 3
    /\ Empty(sp) = {}
    /\ \E e \in Bufs :
          /\ ~Member(sp, e)
          /\ homeOf(sp, e) > 0
          /\ Len(examined(sp, e, homeOf(sp, e))) = size
          /\ probe(sp, e).index \in Deleted(sp)

\* C16: where count < size, the probe for an element that is no member returns
\* a slot of the array and never the value size, so that addElement stores
\* inside the array.
C16_NoSentinel ==
    /\ status # "ub"
    /\ \A e \in Bufs :
          (Running /\ count < size /\ ~Member(sp, e))
             => /\ probe(sp, e).index \in SlotsOf(sp)
                /\ added(sp, e).status = "ok"

\* no slot is empty and the element's home slot is filled: the probe goes to
\* the end of its loop and answers with a deleted slot it passed
C16_Witness ==
    /\ Running
    /\ Empty(sp) = {}
    /\ count >= 1
    /\ count < size
    /\ \E e \in Bufs :
          /\ ~Member(sp, e)
          /\ homeOf(sp, e) \in Filled(sp)
          /\ probe(sp, e).index \in Deleted(sp)

\* C17: addElement(e) for a member e, with count < size, leaves count, the
\* flags and the stored elements as they were and allocates nothing.
C17_AddMemberNoOp ==
    \A e \in Bufs :
        (Running /\ count < size /\ Member(sp, e))
           => LET t == added(sp, e) IN
              /\ t.status = "ok"
              /\ t.count = count
              /\ t.flags = flags
              /\ t.data = data
              /\ t.heap = heap

\* a member given as a buffer that is not the stored block, which the probe
\* finds past a deleted slot, in a table with room
C17_Witness ==
    /\ Running
    /\ count < size
    /\ Member(sp, <<1, 0, 1>>)
    /\ DeletedBefore(<<1, 0, 1>>, probe(sp, <<1, 0, 1>>).index) # {}
    /\ Empty(sp) # {}

\* C18: for every filled slot i, holding e, none of the slots the probe for e
\* looks at before i is empty; so the probe for a member comes to its slot.
C18_ProbeChain ==
    status = "ok" =>
        \A i \in Filled(sp) :
            /\ \A j \in SlotsOf(sp) : Dist(data[i], j) < Dist(data[i], i) => flags[j] # 0
            /\ probe(sp, data[i]) = [index |-> i, found |-> TRUE]

\* a member whose chain wraps round the end of the array: it is stored below
\* its home slot, past a filled and a deleted slot
C18_Witness ==
    /\ Running
    /\ \E i \in Filled(sp) :
          /\ i < homeOf(sp, data[i])
          /\ \E j \in Filled(sp) : Dist(data[i], j) < Dist(data[i], i)
          /\ DeletedBefore(data[i], i) # {}

\* C19: beside the caller's set S (addElement(e) puts e in, where S has fewer
\* than size elements; removeElement(e) takes e out), findElement(e) is not
\* NULL exactly for the e in S, and numElements is the number of elements of S.
C19_RefinesSet ==
    status = "ok" =>
        /\ \A e \in Bufs : (found(sp, e) # NULL) <=> (strdup(e) \in S)
        /\ count = Cardinality(S)

\* S has two elements, one of them taken out before and put in again: its
\* bytes are in a deleted slot too
C19_Witness ==
    /\ Running
    /\ Cardinality(S) = 2
    /\ \E d \in Deleted(sp) : data[d] \in S

\* C20: where addElement stores a new element, the slot it writes was empty
\* or deleted, not filled: every filled slot keeps its flag and its element.
C20_AddSparesMembers ==
    \A e \in Bufs :
        (Running /\ count < size /\ ~Member(sp, e))
           => LET r == probe(sp, e)
                  t == added(sp, e)
              IN  /\ r.index \in Empty(sp) \cup Deleted(sp)
                  /\ t.flags[r.index] = 1
                  /\ t.heap[r.index] = heap[r.index] + 1
                  /\ \A i \in Filled(sp) : t.flags[i] = 1 /\ t.data[i] = data[i]

\* a filled slot that was written twice (its first element was removed and a
\* new one stored over it), next to a member that was there all along
C20_Witness ==
    /\ Running
    /\ \E i \in Filled(sp) :
          /\ heap[i] >= 2
          /\ \E j \in Filled(sp) : j # i /\ heap[j] = 1

====
